---- MODULE Spec2Model ----
(***************************************************************************)
(* A model of vatsim_utils: the live client (Vatsim::new and its three     *)
(* fetch methods), the stateless rest_api functions, and the lazily built  *)
(* airport tables of the distance module.                                  *)
(*                                                                         *)
(* An Option<T> is a sequence of length at most one: <<>> is None and      *)
(* <<v>> is Some(v). A response body is the same: <<>> is a body serde     *)
(* cannot decode into the expected type, <<v>> one that decodes to v.      *)
(***************************************************************************)
EXTENDS Integers, Sequences, FiniteSets, TLC

VARIABLES
    calls,          \* each task's call in progress
    vatsim,         \* the constructed Vatsim instance, if any
    AIRPORT_DATA,   \* the text of airport_data.csv
    lazy,           \* the LazyLock cells AIRPORTS and AIRPORTS_MAP
    readers,        \* the threads using the airport tables
    measured        \* the last call of haversine: its arguments and result

live_vars == <<calls, vatsim>>
geo_vars == <<AIRPORT_DATA, lazy, readers>>
vars == <<calls, vatsim, AIRPORT_DATA, lazy, readers, measured>>

(* ------------------------------ bounds --------------------------------- *)

\* Longest candidate list of one feed type in a status response.
MaxMirrors == 2
\* Longest pilots / controllers / transceivers array in a response body.
MaxRecords == 2
\* Most lines of airport_data.csv.
MaxRows == 2

SeqsUpTo(S, n) == UNION {[1..k -> S] : k \in 0..n}

(* ------------------------------ errors --------------------------------- *)

\* VatsimUtilError. `kind` is the reqwest::Error kind behind a ReqwestError
\* ("send": the request failed; "decode": Response::json failed).
InvalidStatusCode(code) == [variant |-> "InvalidStatusCode", code |-> code, kind |-> ""]
ReqwestError(kind) == [variant |-> "ReqwestError", code |-> 0, kind |-> kind]
FailedJsonParse == [variant |-> "FailedJsonParse", code |-> 0, kind |-> ""]
NoV3Url == [variant |-> "NoV3Url", code |-> 0, kind |-> ""]
NoTransceiversUrl == [variant |-> "NoTransceiversUrl", code |-> 0, kind |-> ""]
NoError == [variant |-> "", code |-> 0, kind |-> ""]

\* What an invocation ends with. `decoded` records whether Response::json
\* was called on the body.
Ok(v, decoded) == [tag |-> "Ok", value |-> <<v>>, err |-> NoError, msg |-> "", decoded |-> decoded]
Err(e, decoded) == [tag |-> "Err", value |-> <<>>, err |-> e, msg |-> "", decoded |-> decoded]
Panic(m, decoded) == [tag |-> "Panic", value |-> <<>>, err |-> NoError, msg |-> m, decoded |-> decoded]
NoResult == [tag |-> "None", value |-> <<>>, err |-> NoError, msg |-> "", decoded |-> FALSE]

(* ----------------------------- transport ------------------------------- *)

STATUS_URL == "https://status.vatsim.net/status.json"

\* Candidate URLs a status response may list.
V3Mirrors == {"https://data.vatsim.net/v3/vatsim-data.json",
              "https://mirror.vatsim.net/v3/vatsim-data.json"}
TransceiverMirrors == {"https://data.vatsim.net/v3/transceivers-data.json",
                       "https://mirror.vatsim.net/v3/transceivers-data.json"}

\* Status codes the server may answer with.
StatusCodes == {199, 200, 201, 299, 300, 404}

\* A request: the URL and the query pairs added with RequestBuilder::query.
Get(url) == [url |-> url, query |-> <<>>]
NoRequest == [url |-> "", query |-> <<>>]

\* What send().await yields: a transport failure, or a response with a
\* status code and a body.
TransportError == [kind |-> "error", status |-> 0, body |-> <<>>]
HttpResponse(status, body) == [kind |-> "response", status |-> status, body |-> body]
NoResponse == [kind |-> "none", status |-> 0, body |-> <<>>]

Responses(values) ==
    {TransportError}
        \cup {HttpResponse(s, b) : s \in StatusCodes, b \in {<<>>} \cup {<<v>> : v \in values}}

\* is_success with the upper end of the range left out.
is_success_below_299(status) == status >= 200 /\ status < 299

\* StatusCode::is_success: 200..=299.
is_success(status) == status >= 200 /\ status <= 299

\* send().await?, the status check, and response.json().await?, as every
\* fetch function repeats them. Response::json returns reqwest::Error, which
\* `?` converts with From<reqwest::Error>.
send_check_json(resp) ==
    IF resp.kind = "error" THEN Err(ReqwestError("send"), FALSE)
    ELSE IF ~is_success(resp.status) THEN Err(InvalidStatusCode(resp.status), FALSE)
    ELSE IF resp.body = <<>> THEN Err(ReqwestError("decode"), TRUE)
    ELSE Ok(resp.body[1], TRUE)

(* ------------------------------ models --------------------------------- *)

\* Callsigns are byte strings: "A", "AB", "B".
Callsigns == {<<65>>, <<65, 66>>, <<66>>}

Pilots == [callsign : Callsigns, cid : {1, 2}]
Controllers == [callsign : {<<65>>, <<66>>}, cid : {1}]

V3ResponseData ==
    [pilots : SeqsUpTo(Pilots, MaxRecords), controllers : SeqsUpTo(Controllers, MaxRecords)]

TransceiverResponseEntry ==
    {[callsign |-> <<66>>, transceivers |-> <<2, 1>>],
     [callsign |-> <<65>>, transceivers |-> <<1>>]}

StatusData ==
    [v3 : SeqsUpTo(V3Mirrors, MaxMirrors),
     transceivers : SeqsUpTo(TransceiverMirrors, MaxMirrors)]

Cids == {1, 23}

(* ----------------------------- live_api -------------------------------- *)

\* The Vatsim struct, without its reqwest client.
Vatsim(v3_url, transceivers_url) == [v3_url |-> v3_url, transceivers_url |-> transceivers_url]

\* choose always taking the first element.
choose_first(list) == IF list = <<>> THEN {<<>>} ELSE {<<list[1]>>}

\* slice::choose: None on an empty slice, otherwise any element.
choose(list) == IF list = <<>> THEN {<<>>} ELSE {<<list[i]>> : i \in 1..Len(list)}

\* get_endpoint_urls with unwrap_or_default in place of expect: an empty
\* list yields the empty URL.
get_endpoint_urls_or_default(resp) ==
    LET r == send_check_json(resp)
        pick(list) == IF list = <<>> THEN {<<"">>} ELSE choose(list)
    IN  IF r.tag # "Ok" THEN {r}
        ELSE {Ok(<<v[1], t[1]>>, TRUE) :
                 v \in pick(r.value[1].v3), t \in pick(r.value[1].transceivers)}

\* The outcomes get_endpoint_urls can have on a response.
get_endpoint_urls(resp) ==
    LET r == send_check_json(resp)
    IN  IF r.tag # "Ok" THEN {r}
        ELSE LET data == r.value[1]
             IN  IF choose(data.v3) = {<<>>}
                 THEN {Panic("No VATSIM V3 API URLs returned", TRUE)}
                 ELSE IF choose(data.transceivers) = {<<>>}
                 THEN {Panic("No VATSIM transceivers API URLs returned", TRUE)}
                 ELSE {Ok(<<v[1], t[1]>>, TRUE) :
                          v \in choose(data.v3), t \in choose(data.transceivers)}

\* The outcomes Vatsim::new can have: `?` passes the failure on, Ok wraps
\* the two URLs in the struct.
new(resp) ==
    {IF r.tag = "Ok" THEN Ok(Vatsim(r.value[1][1], r.value[1][2]), r.decoded) ELSE r :
        r \in get_endpoint_urls(resp)}

\* String's partial_cmp: lexicographic on bytes; -1, 0, 1 for Less, Equal,
\* Greater.
RECURSIVE partial_cmp(_, _)
partial_cmp(a, b) ==
    IF a = <<>> THEN (IF b = <<>> THEN 0 ELSE -1)
    ELSE IF b = <<>> THEN 1
    ELSE IF a[1] < b[1] THEN -1
    ELSE IF a[1] > b[1] THEN 1
    ELSE partial_cmp(Tail(a), Tail(b))

\* The closure given to sort_by.
by_callsign(a, b) == partial_cmp(a.callsign, b.callsign)

\* insert putting x in front of the elements that compare equal to it.
RECURSIVE insert_before_equal(_, _)
insert_before_equal(sorted, x) ==
    IF sorted = <<>> THEN <<x>>
    ELSE IF by_callsign(sorted[1], x) < 0
    THEN <<sorted[1]>> \o insert_before_equal(Tail(sorted), x)
    ELSE <<x>> \o sorted

\* Insert x behind every element that does not compare greater than it.
RECURSIVE insert(_, _)
insert(sorted, x) ==
    IF sorted = <<>> THEN <<x>>
    ELSE IF by_callsign(sorted[1], x) <= 0 THEN <<sorted[1]>> \o insert(Tail(sorted), x)
    ELSE <<x>> \o sorted

\* slice::sort_by with the by_callsign closure: a stable sort.
RECURSIVE sort_by(_)
sort_by(s) ==
    IF s = <<>> THEN <<>> ELSE insert(sort_by(SubSeq(s, 1, Len(s) - 1)), s[Len(s)])

\* get_v3_data without the sort of the controllers.
get_v3_data_pilots_only(resp) ==
    LET r == send_check_json(resp)
    IN  IF r.tag # "Ok" THEN r
        ELSE Ok([r.value[1] EXCEPT !.pilots = sort_by(r.value[1].pilots)], r.decoded)

get_v3_data(resp) ==
    LET r == send_check_json(resp)
    IN  IF r.tag # "Ok" THEN r
        ELSE LET data == r.value[1]
             IN  Ok([data EXCEPT !.pilots = sort_by(data.pilots),
                                 !.controllers = sort_by(data.controllers)], r.decoded)

\* get_transceivers_data sorting the sets as get_v3_data sorts its records.
get_transceivers_data_sorted(resp) ==
    LET r == send_check_json(resp)
    IN  IF r.tag # "Ok" THEN r ELSE Ok(sort_by(r.value[1]), r.decoded)

get_transceivers_data(resp) == send_check_json(resp)

get_ratings_times(resp) == send_check_json(resp)

RatingTimesUrl(cid) == "https://api.vatsim.net/api/ratings/" \o ToString(cid) \o "/rating_times"

(* ------------------------------ rest_api ------------------------------- *)

API == "https://api.vatsim.net/api/"

\* RequestBuilder::query: the pairs are appended to the request's query.
query(req, pairs) == [req EXCEPT !.query = @ \o pairs]

\* The three parameters always sent, an absent one with an empty value.
with_page_start_date_sent_empty(req, page, start, date) ==
    query(req, <<<<"page", IF page # <<>> THEN ToString(page[1]) ELSE "">>,
                 <<"start", IF start # <<>> THEN start[1] ELSE "">>,
                 <<"date", IF date # <<>> THEN date[1] ELSE "">>>>)

\* The three `if let Some(..)` blocks get_atc_sessions and
\* get_facility_history share.
with_page_start_date(req, page, start, date) ==
    LET r1 == IF page # <<>> THEN query(req, <<<<"page", ToString(page[1])>>>>) ELSE req
        r2 == IF start # <<>> THEN query(r1, <<<<"start", start[1]>>>>) ELSE r1
    IN  IF date # <<>> THEN query(r2, <<<<"date", date[1]>>>>) ELSE r2

user_ratings_request(cid) == Get(API \o "ratings/" \o ToString(cid) \o "/")

rest_get_ratings_times_request(cid) == Get(RatingTimesUrl(cid))

get_connections_request(cid, page) ==
    Get(API \o "ratings/" \o ToString(cid) \o "/connections"
            \o (IF page # <<>> THEN "?page=" \o ToString(page[1]) ELSE ""))

get_atc_sessions_request(cid, page, specifier, start, date) ==
    with_page_start_date(
        Get(API \o "ratings/" \o ToString(cid) \o "/atcsessions/"
                \o (IF specifier # <<>> THEN specifier[1] ELSE "")),
        page, start, date)

get_flight_plans_request(cid, page) ==
    Get(API \o "ratings/" \o ToString(cid) \o "/flight_plans"
            \o (IF page # <<>> THEN "?page=" \o ToString(page[1]) ELSE ""))

get_regions_request == Get(API \o "regions/")

get_online_facilities_request == Get(API \o "facilities/")

get_facility_history_request(specifier, page, start, date) ==
    with_page_start_date(Get(API \o "facilities/" \o specifier), page, start, date)

\* get_connections walking on from a page with a next link, which leaves
\* the link off the page it returns.
get_connections_follow_next(resp) ==
    LET r == send_check_json(resp)
    IN  IF r.tag # "Ok" THEN r ELSE Ok([r.value[1] EXCEPT !.next = <<>>], r.decoded)

\* Each rest_api function after its request: the response is checked and
\* decoded, and the decoded value returned as it is.
user_ratings(resp) == send_check_json(resp)
rest_get_ratings_times(resp) == send_check_json(resp)
get_connections(resp) == send_check_json(resp)
get_atc_sessions(resp) == send_check_json(resp)
get_flight_plans(resp) == send_check_json(resp)
get_regions(resp) == send_check_json(resp)
get_online_facilities(resp) == send_check_json(resp)
get_facility_history(resp) == send_check_json(resp)

\* Arguments a caller may pass.
Pages == {<<>>, <<2>>}
Specifiers == {"SAN_TWR"}
Days == {<<>>, <<"2020-01-02">>}

\* Decoded pages: an only page, a first page with a next link, a last page.
PaginatedResponse ==
    {[count |-> 0, next |-> <<>>, previous |-> <<>>, results |-> <<>>],
     [count |-> 3, next |-> <<API \o "page/?page=2">>, previous |-> <<>>,
      results |-> <<11, 12>>],
     [count |-> 3, next |-> <<>>, previous |-> <<API \o "page/?page=1">>,
      results |-> <<13>>]}

PaginatedOps ==
    {"get_connections", "get_atc_sessions", "get_flight_plans", "get_facility_history"}

RestOps ==
    PaginatedOps
        \cup {"user_ratings", "rest_api::get_ratings_times", "get_regions",
              "get_online_facilities"}

\* The requests a rest_api function may send, over the callers' arguments.
RestRequests(op) ==
    CASE op = "user_ratings" -> {user_ratings_request(cid) : cid \in Cids}
      [] op = "rest_api::get_ratings_times" ->
            {rest_get_ratings_times_request(cid) : cid \in Cids}
      [] op = "get_connections" ->
            {get_connections_request(cid, page) : cid \in Cids, page \in Pages}
      [] op = "get_atc_sessions" ->
            {get_atc_sessions_request(cid, page, specifier, start, date) :
                cid \in Cids, page \in Pages,
                specifier \in {<<>>} \cup {<<s>> : s \in Specifiers},
                start \in Days, date \in Days}
      [] op = "get_flight_plans" ->
            {get_flight_plans_request(cid, page) : cid \in Cids, page \in Pages}
      [] op = "get_regions" -> {get_regions_request}
      [] op = "get_online_facilities" -> {get_online_facilities_request}
      [] op = "get_facility_history" ->
            {get_facility_history_request(specifier, page, start, date) :
                specifier \in Specifiers, page \in Pages, start \in Days, date \in Days}

\* The optional arguments of get_atc_sessions and get_facility_history.
Args(page, start, date) == [page |-> page, start |-> start, date |-> date]
NoArgs == Args(<<>>, <<>>, <<>>)

\* The calls of a rest_api function: the optional arguments the caller
\* passes and the request the function sends for them.
RestCalls(op) ==
    CASE op = "get_atc_sessions" ->
            {[args |-> Args(page, start, date),
              req |-> get_atc_sessions_request(cid, page, specifier, start, date)] :
                cid \in Cids, page \in Pages,
                specifier \in {<<>>} \cup {<<s>> : s \in Specifiers},
                start \in Days, date \in Days}
      [] op = "get_facility_history" ->
            {[args |-> Args(page, start, date),
              req |-> get_facility_history_request(specifier, page, start, date)] :
                specifier \in Specifiers, page \in Pages, start \in Days, date \in Days}
      [] OTHER -> {[args |-> NoArgs, req |-> req] : req \in RestRequests(op)}

(* ------------------------------ distance ------------------------------- *)

\* A text is the sequence of its characters.
Text(str) == [i \in 1..Len(str) |-> SubSeq(str, i, i)]

\* str::split on one character: the pieces between its occurrences, one
\* piece more than there are occurrences.
RECURSIVE split(_, _)
split(s, sep) ==
    IF \A i \in 1..Len(s) : s[i] # sep THEN <<s>>
    ELSE LET i == CHOOSE i \in 1..Len(s) : s[i] = sep /\ \A j \in 1..(i - 1) : s[j] # sep
         IN  <<SubSeq(s, 1, i - 1)>> \o split(SubSeq(s, i + 1, Len(s)), sep)

DigitValue ==
    [c \in {"0", "1", "2", "3", "4", "5", "6", "7", "8", "9"} |->
        CASE c = "0" -> 0 [] c = "1" -> 1 [] c = "2" -> 2 [] c = "3" -> 3 [] c = "4" -> 4
          [] c = "5" -> 5 [] c = "6" -> 6 [] c = "7" -> 7 [] c = "8" -> 8 [] c = "9" -> 9]

RECURSIVE Decimal(_)
Decimal(digits) ==
    IF digits = <<>> THEN 0
    ELSE 10 * Decimal(SubSeq(digits, 1, Len(digits) - 1)) + DigitValue[digits[Len(digits)]]

RECURSIVE Pow10(_)
Pow10(n) == IF n = 0 THEN 1 ELSE 10 * Pow10(n - 1)

\* str::parse::<f64> on texts of signs, digits and points: an optional
\* sign, digits with at most one point among them, at least one digit. The
\* value is kept in thousandths; <<>> is the Err that unwrap panics on.
parse(s) ==
    LET signed == s # <<>> /\ s[1] \in {"-", "+"}
        body == IF signed THEN Tail(s) ELSE s
        parts == split(body, ".")
        digits == IF Len(parts) = 2 THEN parts[1] \o parts[2] ELSE parts[1]
        places == IF Len(parts) = 2 THEN Len(parts[2]) ELSE 0
    IN  IF Len(parts) > 2 \/ digits = <<>> \/ places > 3
           \/ \E i \in 1..Len(digits) : digits[i] \notin DOMAIN DigitValue
        THEN <<>>
        ELSE <<(IF signed /\ s[1] = "-" THEN -1 ELSE 1)
                  * Decimal(digits) * Pow10(3 - places)>>

Airport(identifier, latitude, longitude) ==
    [identifier |-> identifier, latitude |-> latitude, longitude |-> longitude]

\* The body both closures run on a line: <<>> when an unwrap panics.
airport(line) ==
    LET parts == split(line, ",")
    IN  IF Len(parts) < 2 \/ parse(parts[2]) = <<>> THEN <<>>
        ELSE IF Len(parts) < 3 \/ parse(parts[3]) = <<>> THEN <<>>
        ELSE <<Airport(parts[1], parse(parts[2])[1], parse(parts[3])[1])>>

\* .split('\n').filter(|line| !line.is_empty())
lines(data) == SelectSeq(split(data, "\n"), LAMBDA line : line # <<>>)

\* The closure of AIRPORTS: <<>> when a line panics, else the Vec.
RECURSIVE collect(_)
collect(ls) ==
    IF ls = <<>> THEN <<<<>>>>
    ELSE LET front == collect(SubSeq(ls, 1, Len(ls) - 1))
             a == airport(ls[Len(ls)])
         IN  IF front = <<>> \/ a = <<>> THEN <<>> ELSE <<Append(front[1], a[1])>>

AIRPORTS(data) == collect(lines(data))

\* An insert that keeps the entry a key already has (entry().or_insert()).
hash_insert_keep_first(m, key, value) ==
    [k \in DOMAIN m \cup {key} |-> IF k \in DOMAIN m THEN m[k] ELSE value]

\* HashMap::insert: the entry of the key is set, replacing an older one.
hash_insert(m, key, value) ==
    [k \in DOMAIN m \cup {key} |-> IF k = key THEN value ELSE m[k]]

\* HashMap::get
hash_get(m, key) == IF key \in DOMAIN m THEN <<m[key]>> ELSE <<>>

EmptyMap == [k \in {} |-> <<>>]

\* The closure of AIRPORTS_MAP: <<>> when a line panics, else the HashMap.
RECURSIVE for_each_insert(_)
for_each_insert(ls) ==
    IF ls = <<>> THEN <<EmptyMap>>
    ELSE LET front == for_each_insert(SubSeq(ls, 1, Len(ls) - 1))
             a == airport(ls[Len(ls)])
         IN  IF front = <<>> \/ a = <<>> THEN <<>>
             ELSE <<hash_insert(front[1], split(ls[Len(ls)], ",")[1], a[1])>>

AIRPORTS_MAP(data) == for_each_insert(lines(data))

Statics == {"AIRPORTS", "AIRPORTS_MAP"}

\* What the closure of a static returns on the data.
Closure(static, data) == IF static = "AIRPORTS" THEN AIRPORTS(data) ELSE AIRPORTS_MAP(data)

\* A LazyLock cell: its Once state, its value once complete, and how often
\* its closure was started.
Incomplete == [state |-> "incomplete", value |-> <<>>, runs |-> 0]

\* Lines airport_data.csv may hold: well formed ones, two of them with the
\* same identifier, the empty line, and malformed ones.
LinePool ==
    {Text("A,1,2"), Text("A,3.5,-4"), Text("B,7,8"), Text(""),
     Text("B,1"), Text("B,x,2"), Text("B,1,2,9")}

RECURSIVE join(_)
join(ls) == IF Len(ls) = 0 THEN <<>>
            ELSE IF Len(ls) = 1 THEN ls[1]
            ELSE ls[1] \o <<"\n">> \o join(Tail(ls))

Datasets == {join(ls) : ls \in SeqsUpTo(LinePool, MaxRows)}

Threads == {"r1", "r2"}

\* Identifiers a reader may look up.
Keys == {Text("A"), Text("B"), Text("C")}

\* A reader: where it is, the static it is forcing, the value it last got
\* from each static, and its last lookup <<key, result>>.
IdleReader ==
    [pc |-> "idle", static |-> "", seen |-> [s \in Statics |-> <<>>], lookup |-> <<>>]

\* A force that does not wait for a running closure but starts it again.
force_unsynchronised(cell) ==
    CASE cell.state \in {"incomplete", "running"} ->
            [cell |-> [cell EXCEPT !.state = "running", !.runs = @ + 1], pc |-> "init"]
      [] cell.state = "complete" -> [cell |-> cell, pc |-> "read"]
      [] cell.state = "poisoned" -> [cell |-> cell, pc |-> "panicked"]

\* LazyLock::force on a cell: what the cell becomes and where the thread
\* goes. An incomplete cell is claimed and its closure started; a running
\* one makes the thread wait; a complete one is read; a poisoned one panics.
force(cell) ==
    CASE cell.state = "incomplete" ->
            [cell |-> [cell EXCEPT !.state = "running", !.runs = @ + 1], pc |-> "init"]
      [] cell.state = "running" -> [cell |-> cell, pc |-> "blocked"]
      [] cell.state = "complete" -> [cell |-> cell, pc |-> "read"]
      [] cell.state = "poisoned" -> [cell |-> cell, pc |-> "panicked"]

\* The thread after force sent it to `pc` on the cell.
Forced(r, static, cell, pc) ==
    [r EXCEPT !.pc = IF pc = "read" THEN "idle" ELSE pc,
              !.static = IF pc = "read" THEN "" ELSE static,
              !.seen[static] = IF pc = "read" THEN cell.value ELSE @]

\* A thread dereferences a static.
Deref(th) ==
    /\ readers[th].pc = "idle"
    /\ \E s \in Statics :
          LET f == force(lazy[s])
          IN  /\ lazy' = [lazy EXCEPT ![s] = f.cell]
              /\ readers' = [readers EXCEPT ![th] = Forced(readers[th], s, f.cell, f.pc)]
    /\ UNCHANGED <<live_vars, measured, AIRPORT_DATA>>

\* The closure of the claimed cell ends: with the table, which completes
\* the cell, or with a panic, which poisons it.
FinishInit(th) ==
    /\ readers[th].pc = "init"
    /\ LET s == readers[th].static
           built == Closure(s, AIRPORT_DATA)
       IN  IF built = <<>>
           THEN /\ lazy' = [lazy EXCEPT ![s].state = "poisoned"]
                /\ readers' = [readers EXCEPT ![th].pc = "panicked"]
           ELSE /\ lazy' = [lazy EXCEPT ![s].state = "complete", ![s].value = built]
                /\ readers' = [readers EXCEPT ![th] = Forced(readers[th], s, lazy'[s], "read")]
    /\ UNCHANGED <<live_vars, measured, AIRPORT_DATA>>

\* A waiting thread is woken once the closure has ended.
Wake(th) ==
    /\ readers[th].pc = "blocked"
    /\ lazy[readers[th].static].state # "running"
    /\ LET s == readers[th].static
           f == force(lazy[s])
       IN  readers' = [readers EXCEPT ![th] = Forced(readers[th], s, f.cell, f.pc)]
    /\ UNCHANGED <<live_vars, measured, AIRPORT_DATA, lazy>>

\* A thread that has the map looks an identifier up.
Lookup(th) ==
    /\ readers[th].pc = "idle"
    /\ readers[th].seen["AIRPORTS_MAP"] # <<>>
    /\ \E key \in Keys :
          readers' = [readers EXCEPT ![th].lookup =
                         <<key, hash_get(readers[th].seen["AIRPORTS_MAP"][1], key)>>]
    /\ UNCHANGED <<live_vars, measured, AIRPORT_DATA, lazy>>

(* ------------------------- distance: haversine ------------------------- *)

\* An f64 is modelled in decimal fixed point: <<n>> is the number n, in
\* units of 1/Unit for plain numbers, of a microradian for angles, of a
\* metre or a mile for distances, and NaN is <<>>. As in IEEE arithmetic
\* +, -, *, / and sqrt give the exact result rounded to the nearest value
\* that can be represented; sin, cos and atan2 are computed to that
\* precision by CORDIC. On the coordinates below, the result is NaN for
\* exactly the arguments for which the f64 result is NaN.
NaN == <<>>
Unit == 10000
PI == 3141593

\* n / d rounded to the nearest whole number, halves away from zero.
RoundDiv(n, d) ==
    LET m == IF n < 0 THEN -n ELSE n
        q == (m \div d) + (IF 2 * (m % d) >= d THEN 1 ELSE 0)
    IN  IF n < 0 THEN -q ELSE q

\* x * y of two plain numbers.
mul(x, y) == RoundDiv(x * y, Unit)

\* atan(2^-i) for i = 0, 1, ... in microradians, and the reciprocal of the
\* gain of that many CORDIC rotations in millionths.
AtanTable ==
    <<785398, 463648, 244979, 124355, 62419, 31240, 15624, 7812, 3906, 1953, 977, 488,
      244, 122, 61, 31, 15, 8, 4, 2, 1>>
CordicScale == 607253

RECURSIVE Pow2(_)
Pow2(n) == IF n = 0 THEN 1 ELSE 2 * Pow2(n - 1)

\* <<cos z, sin z>> in millionths, for z within a quarter turn of 0.
RECURSIVE Rotate(_, _, _, _)
Rotate(x, y, z, i) ==
    IF i > Len(AtanTable) THEN <<x, y>>
    ELSE LET dx == RoundDiv(y, Pow2(i - 1))
             dy == RoundDiv(x, Pow2(i - 1))
         IN  IF z >= 0 THEN Rotate(x - dx, y + dy, z - AtanTable[i], i + 1)
             ELSE Rotate(x + dx, y - dy, z + AtanTable[i], i + 1)

\* The angle brought within a quarter turn of 0, with the same sine.
Reduced(z) ==
    IF 2 * z > PI THEN PI - z ELSE IF 2 * z < -PI THEN -PI - z ELSE z

\* f64::sin and f64::cos of an angle between -PI and PI.
sin(z) == RoundDiv(Rotate(CordicScale, 0, Reduced(z), 1)[2], 100)
cos(z) ==
    LET c == RoundDiv(Rotate(CordicScale, 0, Reduced(z), 1)[1], 100)
    IN  IF Reduced(z) = z THEN c ELSE -c

\* The largest k in low..high with k * k <= n, by bisection.
RECURSIVE Root(_, _, _)
Root(n, low, high) ==
    IF low = high THEN low
    ELSE LET mid == (low + high + 1) \div 2
         IN  IF mid * mid <= n THEN Root(n, mid, high) ELSE Root(n, low, mid - 1)

\* f64::sqrt of a plain number: NaN below zero.
sqrt(x) ==
    IF x < 0 THEN NaN
    ELSE LET n == x * Unit
             low == Root(n, 0, 2 * Unit)
         IN  <<IF (low + 1) * (low + 1) - n < n - low * low THEN low + 1 ELSE low>>

\* The angle of the vector <<x, y>>, turned onto the x axis step by step.
RECURSIVE Vector(_, _, _, _)
Vector(x, y, z, i) ==
    IF i > Len(AtanTable) \/ y = 0 THEN z
    ELSE LET dx == RoundDiv(y, Pow2(i - 1))
             dy == RoundDiv(x, Pow2(i - 1))
         IN  IF y > 0 THEN Vector(x + dx, y - dy, z + AtanTable[i], i + 1)
             ELSE Vector(x - dx, y + dy, z - AtanTable[i], i + 1)

\* f64::atan2 of two plain numbers that are not negative.
atan2(y, x) == Vector(100 * x, 100 * y, 0, 1)

EarthRadius == 6371000

\* d = r * c in metres, c in microradians; NaN when a square root is NaN.
haversine_metres(lat1, lon1, lat2, lon2) ==
    LET r == EarthRadius
        phi1 == RoundDiv(lat1 * PI, 180)
        phi2 == RoundDiv(lat2 * PI, 180)
        dphi == RoundDiv((lat2 - lat1) * PI, 180)
        dlambda == RoundDiv((lon2 - lon1) * PI, 180)
        a == mul(sin(RoundDiv(dphi, 2)), sin(RoundDiv(dphi, 2)))
                + mul(mul(mul(cos(phi1), cos(phi2)), sin(RoundDiv(dlambda, 2))),
                      sin(RoundDiv(dlambda, 2)))
    IN  IF sqrt(a) = NaN \/ sqrt(Unit - a) = NaN THEN NaN
        ELSE LET c == 2 * atan2(sqrt(a)[1], sqrt(Unit - a)[1])
             IN  <<(r \div 1000) * (c \div 1000) + RoundDiv((r \div 1000) * (c % 1000), 1000)>>

\* f64::round(d * 0.00054)
round_miles(d) == IF d = NaN THEN NaN ELSE <<RoundDiv(d[1] * 54, 100000)>>

\* haversine on coordinates in whole degrees.
haversine(lat1, lon1, lat2, lon2) == round_miles(haversine_metres(lat1, lon1, lat2, lon2))

\* Coordinates a caller may pass, in degrees.
Latitudes == {-8, 0, 8, 32, 34}
Longitudes == {-118, 0, 180}

\* haversine is called on two points.
Haversine ==
    /\ measured = <<>>
    /\ \E lat1 \in Latitudes, lon1 \in Longitudes, lat2 \in Latitudes, lon2 \in Longitudes :
          measured' = <<[args |-> <<lat1, lon1, lat2, lon2>>,
                         result |-> haversine(lat1, lon1, lat2, lon2)]>>
    /\ UNCHANGED <<live_vars, geo_vars>>

\* The caller is done with the result.
Drop ==
    /\ measured # <<>>
    /\ measured' = <<>>
    /\ UNCHANGED <<live_vars, geo_vars>>

(* ------------------------------ callers -------------------------------- *)

Tasks == {"t1", "t2"}

LiveOps == {"get_v3_data", "get_transceivers_data", "get_ratings_times"}

IdleCall ==
    [pc |-> "idle", op |-> "", args |-> NoArgs, req |-> NoRequest, sends |-> 0,
     resp |-> NoResponse, result |-> NoResult]

\* The call after its request went out once more.
Sent(c, op, req) ==
    [c EXCEPT !.pc = "awaiting", !.op = op, !.req = req, !.sends = c.sends + 1]

\* The live requests with the transceivers request sent to the v3 URL.
LiveRequestsSwapped(op, v) ==
    CASE op = "get_v3_data" -> {Get(v.v3_url)}
      [] op = "get_transceivers_data" -> {Get(v.v3_url)}
      [] op = "get_ratings_times" -> {Get(RatingTimesUrl(cid)) : cid \in Cids}

\* The requests a live method may send on the instance `v`.
LiveRequests(op, v) ==
    CASE op = "get_v3_data" -> {Get(v.v3_url)}
      [] op = "get_transceivers_data" -> {Get(v.transceivers_url)}
      [] op = "get_ratings_times" -> {Get(RatingTimesUrl(cid)) : cid \in Cids}

\* The outcomes of `op` on a response.
Outcomes(op, resp) ==
    CASE op = "new" -> new(resp)
      [] op = "get_v3_data" -> {get_v3_data(resp)}
      [] op = "get_transceivers_data" -> {get_transceivers_data(resp)}
      [] op = "get_ratings_times" -> {get_ratings_times(resp)}
      [] op = "user_ratings" -> {user_ratings(resp)}
      [] op = "rest_api::get_ratings_times" -> {rest_get_ratings_times(resp)}
      [] op = "get_connections" -> {get_connections(resp)}
      [] op = "get_atc_sessions" -> {get_atc_sessions(resp)}
      [] op = "get_flight_plans" -> {get_flight_plans(resp)}
      [] op = "get_regions" -> {get_regions(resp)}
      [] op = "get_online_facilities" -> {get_online_facilities(resp)}
      [] op = "get_facility_history" -> {get_facility_history(resp)}

\* A completion that sends the request again when the call failed.
CompletedRetry(c, resp, result) ==
    IF result.tag = "Err" THEN Sent(c, c.op, c.req)
    ELSE [c EXCEPT !.pc = "returned", !.resp = resp, !.result = result]

\* The call after its response arrived: the function runs to its return.
Completed(c, resp, result) ==
    [c EXCEPT !.pc = "returned", !.resp = resp, !.result = result]

\* The decodable bodies a server may send for `op`.
Bodies(op) ==
    CASE op = "new" -> StatusData
      [] op = "get_v3_data" -> V3ResponseData
      [] op = "get_transceivers_data" -> SeqsUpTo(TransceiverResponseEntry, MaxRecords)
      [] op \in PaginatedOps -> PaginatedResponse
      [] OTHER -> {[id |-> 1]}

\* A few of them, for the runs with concurrent tasks.
SampleBodies(op) ==
    CASE op = "get_v3_data" ->
            {[pilots |-> <<>>, controllers |-> <<>>],
             [pilots |-> <<[callsign |-> <<66>>, cid |-> 1], [callsign |-> <<65>>, cid |-> 2]>>,
              controllers |-> <<[callsign |-> <<66>>, cid |-> 1],
                                [callsign |-> <<65>>, cid |-> 1]>>]}
      [] op = "get_transceivers_data" -> {<<>>} \cup {<<e>> : e \in TransceiverResponseEntry}
      [] OTHER -> Bodies(op)

LiveInit ==
    /\ calls = [t \in Tasks |-> IdleCall]
    /\ vatsim = <<>>

Init ==
    /\ LiveInit
    /\ AIRPORT_DATA = Text("KSAN,32.7,-117.1")
    /\ lazy = [s \in Statics |-> Incomplete]
    /\ readers = [th \in Threads |-> IdleReader]
    /\ measured = <<>>

\* Vatsim::new is called: the status request goes out. One instance is
\* followed: it is constructed by one task at a time, and only until a
\* construction succeeded.
NewInvoke(t) ==
    /\ calls[t].pc = "idle"
    /\ vatsim = <<>>
    /\ \A u \in Tasks : calls[u].op # "new"
    /\ calls' = [calls EXCEPT ![t] = Sent(calls[t], "new", Get(STATUS_URL))]
    /\ UNCHANGED <<vatsim, geo_vars, measured>>

\* A method of the constructed instance is called: its request goes out.
LiveInvoke(t) ==
    /\ calls[t].pc = "idle"
    /\ vatsim # <<>>
    /\ \E op \in LiveOps : \E req \in LiveRequests(op, vatsim[1]) :
          calls' = [calls EXCEPT ![t] = Sent(calls[t], op, req)]
    /\ UNCHANGED <<vatsim, geo_vars, measured>>

\* The awaited response arrives and the function runs to its return.
Resume(t, sample) ==
    /\ calls[t].pc = "awaiting"
    /\ \E resp \in Responses(IF sample THEN SampleBodies(calls[t].op)
                                        ELSE Bodies(calls[t].op)) :
          \E result \in Outcomes(calls[t].op, resp) :
             calls' = [calls EXCEPT ![t] = Completed(calls[t], resp, result)]
    /\ UNCHANGED <<vatsim, geo_vars, measured>>

\* The caller takes the result: a panic ends the task, Ok of Vatsim::new
\* binds the instance, the response is dropped.
Return(t) ==
    /\ calls[t].pc = "returned"
    /\ calls' = [calls EXCEPT ![t] =
                    IF calls[t].result.tag = "Panic"
                    THEN [calls[t] EXCEPT !.pc = "panicked"]
                    ELSE IdleCall]
    /\ vatsim' = IF calls[t].op = "new" /\ calls[t].result.tag = "Ok"
                 THEN calls[t].result.value
                 ELSE vatsim
    /\ UNCHANGED <<geo_vars, measured>>

\* A rest_api function is called: its request goes out.
RestInvoke(t) ==
    /\ calls[t].pc = "idle"
    /\ \E op \in RestOps : \E call \in RestCalls(op) :
          calls' = [calls EXCEPT ![t] = [Sent(calls[t], op, call.req) EXCEPT !.args = call.args]]
    /\ UNCHANGED <<vatsim, geo_vars, measured>>

\* Concurrent tasks constructing and then sharing one instance.
Next ==
    \E t \in Tasks :
        \/ NewInvoke(t)
        \/ LiveInvoke(t)
        \/ Resume(t, TRUE)
        \/ Return(t)

Spec == Init /\ [][Next]_vars

\* One caller making one call after another, of every operation.
FetchNext ==
    \/ NewInvoke("t1")
    \/ LiveInvoke("t1")
    \/ RestInvoke("t1")
    \/ Resume("t1", FALSE)
    \/ Return("t1")

FetchSpec == Init /\ [][FetchNext]_vars

\* Threads using the airport tables of any data file.
GeoInit ==
    /\ LiveInit
    /\ AIRPORT_DATA \in Datasets
    /\ lazy = [s \in Statics |-> Incomplete]
    /\ readers = [th \in Threads |-> IdleReader]
    /\ measured = <<>>

GeoNext ==
    \E th \in Threads :
        \/ Deref(th)
        \/ FinishInit(th)
        \/ Wake(th)
        \/ Lookup(th)

GeoSpec == GeoInit /\ [][GeoNext]_vars

\* A caller measuring distances.
HavNext == Haversine \/ Drop

HavSpec == Init /\ [][HavNext]_vars

(* ------------------------------- claims -------------------------------- *)

Range(f) == {f[i] : i \in DOMAIN f}

\* a <= b in the lexicographic order of byte strings.
StringLeq(a, b) ==
    \E k \in 0..Len(a) :
        /\ k <= Len(b)
        /\ \A i \in 1..k : a[i] = b[i]
        /\ \/ k = Len(a)
           \/ k < Len(b) /\ a[k + 1] < b[k + 1]

NonDecreasing(s) == \A i \in 1..(Len(s) - 1) : StringLeq(s[i].callsign, s[i + 1].callsign)

CallsignsOf(s) == [i \in 1..Len(s) |-> s[i].callsign]

\* Every order the records of s can be listed in.
Reorderings(s) == {[i \in 1..Len(s) |-> s[f[i]]] : f \in Permutations(1..Len(s))}

Returned(t) == calls[t].pc = "returned"

Answered2xx(t) ==
    Returned(t) /\ calls[t].resp.kind = "response" /\ calls[t].resp.status \in 200..299

\* C1: a successful get_v3_data returns pilots and controllers that are
\* each non-decreasing by callsign, and the callsign order it returns is
\* the one it returns for the same records listed in any other order.
C1_SortedByCallsign ==
    \A t \in Tasks :
        Returned(t) /\ calls[t].op = "get_v3_data" /\ calls[t].result.tag = "Ok" =>
            LET data == calls[t].result.value[1]
                body == calls[t].resp.body[1]
            IN  /\ NonDecreasing(data.pilots)
                /\ NonDecreasing(data.controllers)
                /\ \A p \in Reorderings(body.pilots), c \in Reorderings(body.controllers) :
                      LET other == get_v3_data(
                                       HttpResponse(calls[t].resp.status,
                                                    <<[body EXCEPT !.pilots = p,
                                                                   !.controllers = c]>>))
                      IN  /\ other.tag = "Ok"
                          /\ CallsignsOf(other.value[1].pilots) = CallsignsOf(data.pilots)
                          /\ CallsignsOf(other.value[1].controllers)
                                = CallsignsOf(data.controllers)

\* A fetch whose upstream listed both arrays in descending order.
C1_Witness ==
    \E t \in Tasks :
        /\ Returned(t) /\ calls[t].op = "get_v3_data" /\ calls[t].result.tag = "Ok"
        /\ CallsignsOf(calls[t].resp.body[1].pilots) = <<<<66>>, <<65, 66>>>>
        /\ CallsignsOf(calls[t].result.value[1].pilots) = <<<<65, 66>>, <<66>>>>
        /\ CallsignsOf(calls[t].resp.body[1].controllers) = <<<<66>>, <<65>>>>
        /\ CallsignsOf(calls[t].result.value[1].controllers) = <<<<65>>, <<66>>>>

\* C2: in every operation a response with a status outside 200-299 yields
\* InvalidStatusCode with exactly that status and its body is not decoded;
\* one inside 200-299 never yields InvalidStatusCode and is decoded.
C2_StatusClassification ==
    \A t \in Tasks :
        Returned(t) /\ calls[t].resp.kind = "response" =>
            IF calls[t].resp.status \in 200..299
            THEN /\ calls[t].result.err.variant # "InvalidStatusCode"
                 /\ calls[t].result.decoded
            ELSE /\ calls[t].result.tag = "Err"
                 /\ calls[t].result.err = InvalidStatusCode(calls[t].resp.status)
                 /\ ~calls[t].result.decoded

\* A rest_api fetch answered 300 with a body that would decode.
C2_Witness ==
    \E t \in Tasks :
        /\ Returned(t) /\ calls[t].op = "get_connections"
        /\ calls[t].resp.status = 300 /\ calls[t].resp.body # <<>>
        /\ calls[t].result.err = InvalidStatusCode(300)
        /\ ~calls[t].result.decoded

\* C3: when the status endpoint answers 2xx with a decodable body whose v3
\* or transceivers list is empty, Vatsim::new returns the error NoV3Url or
\* NoTransceiversUrl, and only the status URL has been requested.
C3_NoUrlAvailable ==
    \A t \in Tasks :
        (/\ Answered2xx(t) /\ calls[t].op = "new" /\ calls[t].resp.body # <<>>
         /\ \/ calls[t].resp.body[1].v3 = <<>>
            \/ calls[t].resp.body[1].transceivers = <<>>)
        => /\ calls[t].result.tag = "Err"
           /\ calls[t].result.err =
                 IF calls[t].resp.body[1].v3 = <<>> THEN NoV3Url ELSE NoTransceiversUrl
           /\ \A u \in Tasks : calls[u].pc # "idle" => calls[u].req.url = STATUS_URL

\* C4, in every state: Vatsim::new returns Ok only on a 2xx response that
\* decoded, with both URLs taken from its lists, and a method of the
\* instance is in progress only while the instance exists.
C4_ReadyOnlyIfResolved ==
    /\ \A t \in Tasks :
          Returned(t) /\ calls[t].op = "new" /\ calls[t].result.tag = "Ok" =>
             /\ calls[t].resp.kind = "response"
             /\ calls[t].resp.status \in 200..299
             /\ calls[t].resp.body # <<>>
             /\ calls[t].result.value[1].v3_url \in Range(calls[t].resp.body[1].v3)
             /\ calls[t].result.value[1].transceivers_url
                   \in Range(calls[t].resp.body[1].transceivers)
    /\ \A t \in Tasks : calls[t].op \in LiveOps => vatsim # <<>>

\* C4, in every step: the instance comes into being only as the value of
\* an Ok that Vatsim::new returned.
C4_InstanceOnlyFromOk ==
    vatsim' # vatsim =>
        \E t \in Tasks :
            /\ Returned(t) /\ calls[t].op = "new" /\ calls[t].result.tag = "Ok"
            /\ vatsim' = calls[t].result.value

\* C4: construction is atomic: an instance exists only after a 2xx status
\* response that decoded and gave both URLs; no failing path of Vatsim::new
\* produces one, and no method of the instance runs without one.
C4_AtomicConstruction == []C4_ReadyOnlyIfResolved /\ [][C4_InstanceOnlyFromOk]_vars

\* A method running on the instance while the other task's construction
\* attempt is long over.
C4_Witness ==
    /\ vatsim # <<>>
    /\ \E t \in Tasks : Returned(t) /\ calls[t].op \in LiveOps

\* C5: a 2xx response whose body cannot be decoded fails with
\* FailedJsonParse, and a failed HTTP call with ReqwestError: two variants.
C5_DecodeFailureVariant ==
    \A t \in Tasks :
        /\ Answered2xx(t) /\ calls[t].resp.body = <<>> =>
              calls[t].result.tag = "Err" /\ calls[t].result.err = FailedJsonParse
        /\ Returned(t) /\ calls[t].resp.kind = "error" =>
              calls[t].result.tag = "Err" /\ calls[t].result.err.variant = "ReqwestError"

\* C6: an invocation of a fetch operation has sent exactly one request,
\* however it ends, and a transport failure, a status outside 200-299 or
\* an undecodable body ends it with an error and no value.
C6_OneRequestPerInvocation ==
    \A t \in Tasks :
        /\ calls[t].pc # "idle" => calls[t].sends = 1
        /\ calls[t].pc = "idle" => calls[t].sends = 0
        /\ (/\ Returned(t)
            /\ calls[t].op # "new"
            /\ \/ calls[t].resp.kind = "error"
               \/ calls[t].resp.status \notin 200..299
               \/ calls[t].resp.body = <<>>)
           => calls[t].result.tag = "Err" /\ calls[t].result.value = <<>>

\* A rest_api call ended in a transport failure after its one request.
C6_Witness ==
    \E t \in Tasks :
        /\ Returned(t) /\ calls[t].op = "user_ratings"
        /\ calls[t].resp.kind = "error"
        /\ calls[t].result.tag = "Err" /\ calls[t].sends = 1

\* C7, in every state: once the instance exists no request in progress
\* targets the status URL, every get_v3_data request targets its v3_url and
\* every get_transceivers_data request its transceivers_url.
C7_RequestsTargetSelection ==
    vatsim # <<>> =>
        \A t \in Tasks :
            calls[t].pc # "idle" =>
                /\ calls[t].req.url # STATUS_URL
                /\ calls[t].op = "get_v3_data" => calls[t].req.url = vatsim[1].v3_url
                /\ calls[t].op = "get_transceivers_data" =>
                      calls[t].req.url = vatsim[1].transceivers_url

\* C7, in every step: the URLs of an existing instance do not change.
C7_SelectionKept == vatsim # <<>> => vatsim' = vatsim

\* C7: across any interleaving of calls on a constructed instance its two
\* URLs stay as selected, the status endpoint is not requested again, and
\* each feed's requests go to the URL selected for it.
C7_EndpointsFixed == []C7_RequestsTargetSelection /\ [][C7_SelectionKept]_vars

\* Two calls on the instance in flight at once.
C7_Witness ==
    /\ vatsim # <<>>
    /\ calls["t1"].op = "get_v3_data" /\ calls["t1"].pc = "awaiting"
    /\ calls["t2"].op = "get_transceivers_data" /\ Returned("t2")
    /\ calls["t2"].req.url = vatsim[1].transceivers_url

\* C8: a paginated rest_api call that returns a page has sent one request,
\* and the page is the decoded response: next, previous, count, results.
C8_OnePageAsDecoded ==
    \A t \in Tasks :
        Returned(t) /\ calls[t].op \in PaginatedOps /\ calls[t].result.tag = "Ok" =>
            LET page == calls[t].result.value[1]
                sent == calls[t].resp.body[1]
            IN  /\ calls[t].sends = 1
                /\ page.next = sent.next
                /\ page.previous = sent.previous
                /\ page.count = sent.count
                /\ page.results = sent.results

\* get_connections returned a page that has a next link.
C8_Witness ==
    \E t \in Tasks :
        /\ Returned(t) /\ calls[t].op = "get_connections" /\ calls[t].result.tag = "Ok"
        /\ calls[t].resp.body[1].next # <<>>
        /\ calls[t].result.value[1].next # <<>>
        /\ calls[t].sends = 1

\* The identifiers of the lines of the data, in file order.
Identifiers(data) == [i \in 1..Len(lines(data)) |-> split(lines(data)[i], ",")[1]]

\* C9, in every state: the closure of each static has been started at most
\* once, and what a thread got from a static is the value of the completed
\* cell, built from every line of the data.
C9_BuiltOnceSeenWhole ==
    \A s \in Statics :
        /\ lazy[s].runs <= 1
        /\ \A th \in Threads :
              readers[th].seen[s] # <<>> =>
                 /\ lazy[s].state = "complete"
                 /\ readers[th].seen[s] = lazy[s].value
                 /\ IF s = "AIRPORTS"
                    THEN Len(readers[th].seen[s][1]) = Len(lines(AIRPORT_DATA))
                    ELSE DOMAIN readers[th].seen[s][1] = Range(Identifiers(AIRPORT_DATA))

\* C9, in every step: a completed cell and what a thread got from it stay
\* as they are.
C9_NoChangeAfterBuild ==
    \A s \in Statics :
        /\ lazy[s].state = "complete" => lazy'[s] = lazy[s]
        /\ \A th \in Threads :
              readers[th].seen[s] # <<>> => readers'[th].seen[s] = readers[th].seen[s]

\* C9: each table is built at most once however the first accesses
\* interleave, every reader gets the same whole table, and no reader sees
\* it change afterwards.
C9_BuildOnce == []C9_BuiltOnceSeenWhole /\ [][C9_NoChangeAfterBuild]_vars

\* Two threads made their first access together: one has built the table
\* and holds it, the other waited for that build and is about to wake.
C9_Witness ==
    \E s \in Statics :
        /\ lazy[s].runs = 1
        /\ readers["r1"].seen[s] # <<>>
        /\ readers["r2"].pc = "blocked" /\ readers["r2"].static = s

\* C10: a lookup of an identifier some line carries returns the record of
\* the last such line; a lookup of any other identifier returns None.
C10_LookupLastWins ==
    \A th \in Threads :
        readers[th].lookup # <<>> =>
            LET key == readers[th].lookup[1]
                found == readers[th].lookup[2]
                ids == Identifiers(AIRPORT_DATA)
                carrying == {i \in 1..Len(ids) : ids[i] = key}
            IN  IF carrying = {} THEN found = <<>>
                ELSE LET last == CHOOSE i \in carrying : \A j \in carrying : j <= i
                         fields == split(lines(AIRPORT_DATA)[last], ",")
                     IN  /\ found # <<>>
                         /\ found[1].identifier = key
                         /\ <<found[1].latitude>> = parse(fields[2])
                         /\ <<found[1].longitude>> = parse(fields[3])

\* Two lines carry A; the lookup returned the coordinates of the second.
C10_Witness ==
    /\ AIRPORT_DATA = Text("A,1,2\nA,3.5,-4")
    /\ \E th \in Threads :
          readers[th].lookup = <<Text("A"), <<Airport(Text("A"), 3500, -4000)>>>>

\* The == of two f64 values: a NaN is equal to nothing, itself included.
f64_eq(x, y) == x # NaN /\ y # NaN /\ x = y

\* The distance from the second point of the last call back to its first.
Backwards(m) == haversine(m.args[3], m.args[4], m.args[1], m.args[2])

\* C11: haversine is symmetric in its two points: the result of every call
\* equals (==) the result of the call with the two points exchanged.
C11_Symmetric ==
    \A i \in 1..Len(measured) : f64_eq(measured[i].result, Backwards(measured[i]))

\* C12: the distance of a point to itself is 0, and every result is a whole
\* number of miles: the whole number nearest to the distance in metres
\* times 0.00054, the farther from zero of two equally near ones.
C12_WholeMiles ==
    \A i \in 1..Len(measured) :
        LET m == measured[i]
            d == haversine_metres(m.args[1], m.args[2], m.args[3], m.args[4])
        IN  /\ m.result # NaN
            /\ m.args[1] = m.args[3] /\ m.args[2] = m.args[4] => m.result = <<0>>
            /\ d # NaN =>
                  /\ 100000 * m.result[1] - 54 * d[1] \in (-49999)..50000
                  /\ m.result[1] >= 0

\* result lists exactly the records of upstream, each once and unchanged,
\* and records with the same callsign in the order upstream has them.
StableReordering(upstream, result) ==
    /\ Len(result) = Len(upstream)
    /\ \E f \in Permutations(1..Len(upstream)) :
          /\ \A i \in 1..Len(result) : result[i] = upstream[f[i]]
          /\ \A i, j \in 1..Len(result) :
                i < j /\ result[i].callsign = result[j].callsign => f[i] < f[j]

\* C13: the pilots, and the controllers, get_v3_data returns are the decoded
\* upstream records, none added, dropped or altered, and two records with
\* the same callsign are in the relative order they had upstream.
C13_StableLossless ==
    \A t \in Tasks :
        Returned(t) /\ calls[t].op = "get_v3_data" /\ calls[t].result.tag = "Ok" =>
            /\ StableReordering(calls[t].resp.body[1].pilots, calls[t].result.value[1].pilots)
            /\ StableReordering(calls[t].resp.body[1].controllers,
                                calls[t].result.value[1].controllers)

\* Two pilots with the callsign A, upstream the one with the greater cid
\* first: they were returned in that order.
C13_Witness ==
    \E t \in Tasks :
        /\ Returned(t) /\ calls[t].op = "get_v3_data" /\ calls[t].result.tag = "Ok"
        /\ calls[t].resp.body[1].pilots
              = <<[callsign |-> <<65>>, cid |-> 2], [callsign |-> <<65>>, cid |-> 1]>>
        /\ calls[t].result.value[1].pilots = calls[t].resp.body[1].pilots

\* A call of Vatsim::new answered with a status document naming at least
\* one URL of each kind.
ResolvedFromLists(t) ==
    /\ Answered2xx(t) /\ calls[t].op = "new" /\ calls[t].resp.body # <<>>
    /\ calls[t].resp.body[1].v3 # <<>>
    /\ calls[t].resp.body[1].transceivers # <<>>

\* C14: when both lists of the status document are non-empty, the client
\* holds one URL of the v3 list and one URL of the transceivers list, and
\* every pair of a v3 URL and a transceivers URL of the lists is a client
\* the call can return: each element can be selected, whatever the other
\* selection is.
C14_SelectionFromLists ==
    \A t \in Tasks :
        ResolvedFromLists(t) =>
            LET data == calls[t].resp.body[1]
            IN  /\ calls[t].result.tag = "Ok"
                /\ calls[t].result.value[1].v3_url \in Range(data.v3)
                /\ calls[t].result.value[1].transceivers_url \in Range(data.transceivers)
                /\ {o.value[1] : o \in new(calls[t].resp)}
                      = {Vatsim(v, tr) : v \in Range(data.v3), tr \in Range(data.transceivers)}

\* Two different URLs in each list: the client holds the second v3 URL and
\* the first transceivers URL.
C14_Witness ==
    \E t \in Tasks :
        /\ ResolvedFromLists(t)
        /\ Len(calls[t].resp.body[1].v3) = 2
        /\ Len(calls[t].resp.body[1].transceivers) = 2
        /\ calls[t].resp.body[1].v3[1] # calls[t].resp.body[1].v3[2]
        /\ calls[t].resp.body[1].transceivers[1] # calls[t].resp.body[1].transceivers[2]
        /\ calls[t].result.value[1].v3_url = calls[t].resp.body[1].v3[2]
        /\ calls[t].result.value[1].transceivers_url = calls[t].resp.body[1].transceivers[1]

QueryKeys == {"page", "start", "date"}

\* The text a supplied argument is sent as: the page in decimal, a day as
\* it is.
QueryValue(key, given) == IF key = "page" THEN ToString(given[1]) ELSE given[1]

\* C15: get_atc_sessions and get_facility_history send page, start and date
\* as a query parameter exactly when the caller supplied it: nothing under
\* the key of an absent one, one pair with the given value under the key of
\* a supplied one, and no other pair.
C15_OptionalQueryParameters ==
    \A t \in Tasks :
        calls[t].pc # "idle" /\ calls[t].op \in {"get_atc_sessions", "get_facility_history"} =>
            LET sent == calls[t].req.query
                under(key) == {i \in 1..Len(sent) : sent[i][1] = key}
            IN  /\ \A i \in 1..Len(sent) : sent[i][1] \in QueryKeys
                /\ \A key \in QueryKeys :
                      IF calls[t].args[key] = <<>> THEN under(key) = {}
                      ELSE /\ Cardinality(under(key)) = 1
                           /\ \A i \in under(key) :
                                 sent[i][2] = QueryValue(key, calls[t].args[key])

\* get_atc_sessions called with a page and a date and without a start: the
\* request carries page and date only.
C15_Witness ==
    \E t \in Tasks :
        /\ calls[t].pc = "awaiting" /\ calls[t].op = "get_atc_sessions"
        /\ calls[t].args = Args(<<2>>, <<>>, <<"2020-01-02">>)
        /\ calls[t].req.query = <<<<"page", "2">>, <<"date", "2020-01-02">>>>

\* A row that does not consist of an identifier, a number and a number.
Malformed(line) ==
    LET fields == split(line, ",")
    IN  \/ Len(fields) # 3
        \/ parse(fields[2]) = <<>>
        \/ parse(fields[3]) = <<>>

\* C16: building a table is all or nothing: when a non-empty row of the
\* dataset has fewer or more than three fields, or a latitude or longitude
\* that is no number, no table is ever completed or seen by a thread, and a
\* list a thread sees has a record for every row.
C16_AllOrNothing ==
    /\ (\E i \in 1..Len(lines(AIRPORT_DATA)) : Malformed(lines(AIRPORT_DATA)[i])) =>
          \A s \in Statics :
              /\ lazy[s].state # "complete"
              /\ \A th \in Threads : readers[th].seen[s] = <<>>
    /\ \A th \in Threads :
          readers[th].seen["AIRPORTS"] # <<>> =>
              Len(readers[th].seen["AIRPORTS"][1]) = Len(lines(AIRPORT_DATA))

\* C17: the transceiver sets get_transceivers_data returns are the decoded
\* upstream array: the same sets in the same order, each with its
\* transceivers in upstream order, nothing sorted, left out or merged.
C17_TransceiversAsDecoded ==
    \A t \in Tasks :
        Returned(t) /\ calls[t].op = "get_transceivers_data" /\ calls[t].result.tag = "Ok" =>
            LET sets == calls[t].result.value[1]
                upstream == calls[t].resp.body[1]
            IN  /\ Len(sets) = Len(upstream)
                /\ \A i \in 1..Len(sets) :
                      /\ sets[i].callsign = upstream[i].callsign
                      /\ sets[i].transceivers = upstream[i].transceivers

\* Upstream lists the set of B, with transceivers 2 and 1, before the set
\* of A: it was returned so.
C17_Witness ==
    \E t \in Tasks :
        /\ Returned(t) /\ calls[t].op = "get_transceivers_data" /\ calls[t].result.tag = "Ok"
        /\ calls[t].resp.body[1]
              = <<[callsign |-> <<66>>, transceivers |-> <<2, 1>>],
                  [callsign |-> <<65>>, transceivers |-> <<1>>]>>
        /\ calls[t].result.value[1] = calls[t].resp.body[1]
====
